---- MODULE Spec2Model ----
(***************************************************************************)
(* Model of scripts/clean-claude-history.py: clean_claude_history, the     *)
(* read-modify-write that caps every project's `history` array in          *)
(* ~/.claude.json, with its optional timestamped backup.                   *)
(*                                                                         *)
(* The file system is the config file (disk) and the backup files, one per *)
(* whole-second timestamp (backups).  One invocation is a sequence of      *)
(* steps (pc); every step that can raise has a failing twin.  An exception *)
(* no try block catches ends the invocation with outcome "crash".          *)
(***************************************************************************)
EXTENDS Integers, Sequences, FiniteSets, TLC

(* ------------------------------ bounds --------------------------------- *)
MaxHist == 3      \* longest history array in an initial config file
MaxCap == 3       \* largest --max-entries value tried
MaxRuns == 2      \* invocations in a row
MaxClock == 1     \* last whole-second timestamp

ProjectKeys == {"A", "B"}
Caps == 0..MaxCap
Stamps == 0..MaxClock

(* ------------------------- JSON documents ------------------------------ *)
\* History entries are opaque to the program: it counts and slices them.
\* An initial history of length n is <<1, .., n>>, every entry labelled by
\* its position, so that a slice shows which entries it kept.
Hist(n) == [i \in 1..n |-> i]

\* The value of a project's `history` field: a list, null, or no field.
HList(s) == [hkind |-> "list", items |-> s]
HNull == [hkind |-> "null", items |-> <<>>]
HAbsent == [hkind |-> "absent", items |-> <<>>]

\* A value under `projects`: a JSON object (with its other fields, opaque,
\* and its history), or something that is not an object.
EntryObj(o, h) == [kind |-> "object", other |-> o, history |-> h]
EntryScalar == [kind |-> "scalar", other |-> "none", history |-> HAbsent]

NoProjects == [k \in {} |-> EntryScalar]

\* A parsed document: a JSON object (its other top-level fields, opaque, and
\* `projects`: absent or a mapping), or a top-level value that is no object.
DocObj(o, pk, p) == [kind |-> "object", other |-> o, pkind |-> pk, projects |-> p]
DocArray == [kind |-> "array", other |-> "none", pkind |-> "absent", projects |-> NoProjects]
NullDoc == [kind |-> "none", other |-> "none", pkind |-> "absent", projects |-> NoProjects]

\* The bytes of a file: a JSON text (a document in a layout), bytes that
\* are no JSON, the strict prefix a failed write leaves, or no file.
Json(f, d) == [kind |-> "json", fmt |-> f, doc |-> d]
Invalid == [kind |-> "invalid", fmt |-> "none", doc |-> NullDoc]
Truncated == [kind |-> "truncated", fmt |-> "none", doc |-> NullDoc]
Absent == [kind |-> "absent", fmt |-> "none", doc |-> NullDoc]

InitHistories == {HList(Hist(n)) : n \in 0..MaxHist} \cup {HNull, HAbsent}
InitEntries == {EntryObj("x", h) : h \in InitHistories} \cup {EntryScalar}
InitProjects == UNION {[S -> InitEntries] : S \in SUBSET ProjectKeys}
InitDocs == {DocObj("t", "object", p) : p \in InitProjects}
              \cup {DocObj("t", "absent", NoProjects), DocArray}
InitContents == {Json(f, d) : f \in {"compact", "indent2"}, d \in InitDocs}
                  \cup {Invalid, Absent}

(* ----------------------- pure parts of the code ------------------------ *)
\* A lenient parser: bytes that are no JSON load as an empty value.
Parseable_Lenient(c) == c.kind \in {"json", "invalid"}

\* json.load: the document of a JSON text, whatever its layout.
Parseable(c) == c.kind = "json"
Parse(c) == c.doc

\* json.dump(config, f, indent=2, ensure_ascii=False)
Dump(d) == Json("indent2", d)

\* Python's seq[start:]: a negative start counts from the end, and both are
\* clamped to the sequence.
SliceFrom(s, start) ==
  LET n == Len(s)
      lo == IF start < 0 THEN (IF n + start < 0 THEN 0 ELSE n + start)
            ELSE (IF start > n THEN n ELSE start)
  IN SubSeq(s, lo + 1, n)

\* history[-max_entries_per_project:]   (-0 is 0)
KeepRecent(history, m) == SliceFrom(history, 0 - m)

\* The comparison off by one: a history already at the cap is "cleaned".
NeedsCleanup_AtLeast(count, m) == count >= m

\* original_count > max_entries_per_project
NeedsCleanup(count, m) == count > m

\* original_count - max_entries_per_project
RemovedCount(count, m) == count - m

\* The save guard off by one: the file is rewritten with nothing removed.
ShouldSave_Always(total) == total >= 0

\* total_removed > 0
ShouldSave(total) == total > 0

\* config_path.with_suffix('.json.backup-<now>'): one path per second
BackupPath(now) == now

VARIABLES
  disk,             \* bytes of ~/.claude.json
  backups,          \* bytes of each backup path
  clock,            \* datetime.now(), whole seconds
  pc,               \* where the invocation is
  max_entries,      \* argument max_entries_per_project
  backup,           \* argument backup
  backup_path,      \* the backup path once the copy is complete, else -1
  config,           \* the loaded document
  todo,             \* keys of projects.items() not yet visited
  total_removed,
  report,           \* removed count printed per project
  outcome,          \* how the invocation ended
  runs,             \* invocations started
  orig,             \* history: disk when the invocation started
  opened,           \* history: open(config_path, 'r') returned a file
  wrote,            \* history: open(config_path, 'w') was called
  prev_cap          \* history: cap of the previous invocation if it ran to
                    \* completion ("saved" or "no_cleanup"), else -1

vars == <<disk, backups, clock, pc, max_entries, backup, backup_path, config,
          todo, total_removed, report, outcome, runs, orig, opened, wrote, prev_cap>>

NoReport == [k \in {} |-> 0]

Init ==
  /\ disk \in InitContents
  /\ backups = [t \in Stamps |-> Absent]
  /\ clock = 0
  /\ pc = "idle"
  /\ max_entries = 0
  /\ backup = FALSE
  /\ backup_path = -1
  /\ config = NullDoc
  /\ todo = {}
  /\ total_removed = 0
  /\ report = NoReport
  /\ outcome = "none"
  /\ runs = 0
  /\ orig = Absent
  /\ opened = FALSE
  /\ wrote = FALSE
  /\ prev_cap = -1

\* The invocation ends: `how` is what it printed, or "crash".
Finish(how) == pc' = "done" /\ outcome' = how

\* __main__ calls clean_claude_history(max_entries, backup)
Invoke(m, b) ==
  /\ pc \in {"idle", "done"}
  /\ runs < MaxRuns
  /\ runs' = runs + 1
  /\ max_entries' = m
  /\ backup' = b
  /\ pc' = "exists"
  /\ outcome' = "none"
  /\ backup_path' = -1
  /\ config' = NullDoc
  /\ todo' = {}
  /\ total_removed' = 0
  /\ report' = NoReport
  /\ orig' = disk
  /\ opened' = FALSE
  /\ wrote' = FALSE
  /\ prev_cap' = IF outcome \in {"saved", "no_cleanup"} THEN max_entries ELSE -1
  /\ UNCHANGED <<disk, backups, clock>>

\* if not config_path.exists(): print("No Claude config file found"); return
ConfigMissing ==
  /\ pc = "exists"
  /\ disk = Absent
  /\ Finish("not_found")
  /\ UNCHANGED <<disk, backups, clock, max_entries, backup, backup_path, config,
                 todo, total_removed, report, runs, orig, opened, wrote, prev_cap>>

\* The existence check dropped: the invocation goes on without a file.
ConfigExists_NoCheck ==
  /\ pc = "exists"
  /\ pc' = "backup"
  /\ UNCHANGED <<disk, backups, clock, max_entries, backup, backup_path, config,
                 todo, total_removed, report, outcome, runs, orig, opened, wrote, prev_cap>>

ConfigExists ==
  /\ pc = "exists"
  /\ disk # Absent
  /\ pc' = "backup"
  /\ UNCHANGED <<disk, backups, clock, max_entries, backup, backup_path, config,
                 todo, total_removed, report, outcome, runs, orig, opened, wrote, prev_cap>>

\* The backup written from the parsed document instead of copied.
BackupOk_Reserialised ==
  /\ pc = "backup"
  /\ backup
  /\ \E now \in clock..MaxClock :
       /\ clock' = now
       /\ backups' = [backups EXCEPT ![BackupPath(now)] = Dump(Parse(disk))]
       /\ backup_path' = BackupPath(now)
  /\ pc' = "load"
  /\ UNCHANGED <<disk, max_entries, backup, config, todo, total_removed,
                 report, outcome, runs, orig, opened, wrote, prev_cap>>

\* if backup: datetime.now() is read (time does not run backwards) and
\* shutil.copy2(config_path, backup_path) completes
BackupOk ==
  /\ pc = "backup"
  /\ backup
  /\ \E now \in clock..MaxClock :
       /\ clock' = now
       /\ backups' = [backups EXCEPT ![BackupPath(now)] = disk]
       /\ backup_path' = BackupPath(now)
  /\ pc' = "load"
  /\ UNCHANGED <<disk, max_entries, backup, config, todo, total_removed,
                 report, outcome, runs, orig, opened, wrote, prev_cap>>

\* shutil.copy2 raises (no space, no permission): outside every try block.
\* The target is left as it was or holds a part of the copy.
BackupFail ==
  /\ pc = "backup"
  /\ backup
  /\ \E now \in clock..MaxClock :
       /\ clock' = now
       /\ \E left \in {backups[BackupPath(now)], Truncated} :
            backups' = [backups EXCEPT ![BackupPath(now)] = left]
  /\ Finish("crash")
  /\ UNCHANGED <<disk, max_entries, backup, backup_path, config, todo,
                 total_removed, report, runs, orig, opened, wrote, prev_cap>>

\* The test of `backup` lost: the copy is skipped although requested.
BackupSkip_Always ==
  /\ pc = "backup"
  /\ pc' = "load"
  /\ UNCHANGED <<disk, backups, clock, max_entries, backup, backup_path, config,
                 todo, total_removed, report, outcome, runs, orig, opened, wrote, prev_cap>>

\* backup is False
BackupSkip ==
  /\ pc = "backup"
  /\ ~backup
  /\ pc' = "load"
  /\ UNCHANGED <<disk, backups, clock, max_entries, backup, backup_path, config,
                 todo, total_removed, report, outcome, runs, orig, opened, wrote, prev_cap>>

\* with open(config_path, 'r') as f: config = json.load(f)
LoadOk ==
  /\ pc = "load"
  /\ Parseable(disk)
  /\ config' = Parse(disk)
  /\ opened' = TRUE
  /\ pc' = "projects"
  /\ UNCHANGED <<disk, backups, clock, max_entries, backup, backup_path, todo,
                 total_removed, report, outcome, runs, orig, wrote, prev_cap>>

\* except Exception: print("Error reading config"); return.  json.load
\* raises on bytes that are no JSON; open and read can raise on any file.
LoadFail ==
  /\ pc = "load"
  /\ \E io \in BOOLEAN :
       /\ ~Parseable(disk) \/ io
       /\ opened' = ~io
  /\ Finish("read_error")
  /\ UNCHANGED <<disk, backups, clock, max_entries, backup, backup_path, config,
                 todo, total_removed, report, runs, orig, wrote, prev_cap>>

\* projects = config.get('projects', {}); total_removed = 0; .items()
GetProjects ==
  /\ pc = "projects"
  /\ config.kind = "object"
  /\ todo' = DOMAIN config.projects
  /\ total_removed' = 0
  /\ pc' = "loop"
  /\ UNCHANGED <<disk, backups, clock, max_entries, backup, backup_path, config,
                 report, outcome, runs, orig, opened, wrote, prev_cap>>

\* config is no dict: config.get raises AttributeError, uncaught
GetProjectsFail ==
  /\ pc = "projects"
  /\ config.kind # "object"
  /\ Finish("crash")
  /\ UNCHANGED <<disk, backups, clock, max_entries, backup, backup_path, config,
                 todo, total_removed, report, runs, orig, opened, wrote, prev_cap>>

\* One iteration of the for loop over projects.items().  The order of the
\* keys is the file's; any order is taken.
ProcessProject(k) ==
  /\ pc = "loop"
  /\ k \in todo
  /\ LET project_data == config.projects[k]
         history == IF project_data.history.hkind = "absent" THEN <<>>
                    ELSE project_data.history.items
         original_count == Len(history)
     IN /\ project_data.kind = "object"
        /\ project_data.history.hkind # "null"
        /\ IF NeedsCleanup(original_count, max_entries)
           THEN /\ config' = [config EXCEPT !.projects[k].history =
                                HList(KeepRecent(history, max_entries))]
                /\ total_removed' = total_removed + RemovedCount(original_count, max_entries)
                /\ report' = [j \in DOMAIN report \cup {k} |->
                                IF j = k THEN RemovedCount(original_count, max_entries)
                                ELSE report[j]]
           ELSE /\ report' = [j \in DOMAIN report \cup {k} |->
                                IF j = k THEN 0 ELSE report[j]]
                /\ UNCHANGED <<config, total_removed>>
  /\ todo' = todo \ {k}
  /\ UNCHANGED <<disk, backups, clock, pc, max_entries, backup, backup_path,
                 outcome, runs, orig, opened, wrote, prev_cap>>

\* project_data is no dict (.get raises) or history is null (len raises):
\* uncaught. Earlier iterations have changed config in memory only.
ProcessProjectFail(k) ==
  /\ pc = "loop"
  /\ k \in todo
  /\ \/ config.projects[k].kind # "object"
     \/ config.projects[k].history.hkind = "null"
  /\ Finish("crash")
  /\ UNCHANGED <<disk, backups, clock, max_entries, backup, backup_path, config,
                 todo, total_removed, report, runs, orig, opened, wrote, prev_cap>>

\* if total_removed > 0: open(config_path, 'w'); json.dump; stat; print saved
SaveOk ==
  /\ pc = "loop"
  /\ todo = {}
  /\ ShouldSave(total_removed)
  /\ disk' = Dump(config)
  /\ wrote' = TRUE
  /\ Finish("saved")
  /\ UNCHANGED <<backups, clock, max_entries, backup, backup_path, config, todo,
                 total_removed, report, runs, orig, opened, prev_cap>>

\* except Exception: print("Error saving cleaned config").  open raises
\* (file as it was), the write raises (open has emptied the file: a strict
\* prefix is left), or stat raises after a complete write.
SaveFail ==
  /\ pc = "loop"
  /\ todo = {}
  /\ ShouldSave(total_removed)
  /\ \E left \in {disk, Truncated, Dump(config)} : disk' = left
  /\ wrote' = TRUE
  /\ Finish("write_error")
  /\ UNCHANGED <<backups, clock, max_entries, backup, backup_path, config, todo,
                 total_removed, report, runs, orig, opened, prev_cap>>

\* else: print("No cleanup needed")
NoCleanup ==
  /\ pc = "loop"
  /\ todo = {}
  /\ ~ShouldSave(total_removed)
  /\ Finish("no_cleanup")
  /\ UNCHANGED <<disk, backups, clock, max_entries, backup, backup_path, config,
                 todo, total_removed, report, runs, orig, opened, wrote, prev_cap>>

Next ==
  \/ \E m \in Caps, b \in BOOLEAN : Invoke(m, b)
  \/ ConfigMissing
  \/ ConfigExists
  \/ BackupOk
  \/ BackupFail
  \/ BackupSkip
  \/ LoadOk
  \/ LoadFail
  \/ GetProjects
  \/ GetProjectsFail
  \/ \E k \in ProjectKeys : ProcessProject(k)
  \/ \E k \in ProjectKeys : ProcessProjectFail(k)
  \/ SaveOk
  \/ SaveFail
  \/ NoCleanup

Spec == Init /\ [][Next]_vars

(* ------------------------------ claims --------------------------------- *)
Min(a, b) == IF a < b THEN a ELSE b

\* The history the loop sees for a project entry: [] when the field is absent.
HistoryOf(entry) == entry.history.items

\* The document the invocation started from, and its project keys.
OrigDoc == Parse(orig)
OrigKeys == DOMAIN OrigDoc.projects

\* The invocation ran to completion: it visited every project and printed
\* "Cleaned config saved" or "No cleanup needed".
Completed == pc = "done" /\ outcome \in {"saved", "no_cleanup"}

\* Some project of the starting document is longer than the cap.
SomeExceeds ==
  \E k \in OrigKeys : Len(HistoryOf(OrigDoc.projects[k])) > max_entries

\* The backup copy of this invocation is complete.
BackupDone == backup_path # -1

\* C1: after a completed run every project's history, in memory and on
\* disk, has length min(L, M), L its length at the start and M the cap.
C1_LengthIsMin ==
  Completed =>
    /\ Parseable(disk)
    /\ \A k \in OrigKeys :
         LET L == Len(HistoryOf(OrigDoc.projects[k]))
         IN /\ Len(HistoryOf(config.projects[k])) = Min(L, max_entries)
            /\ Len(HistoryOf(Parse(disk).projects[k])) = Min(L, max_entries)

\* C2: after a completed run every project's history on disk is the last
\* min(L, M) entries of its history at the start, in their order.
C2_KeepsLastEntries ==
  Completed =>
    /\ Parseable(disk)
    /\ \A k \in OrigKeys :
         LET h == HistoryOf(OrigDoc.projects[k])
             L == Len(h)
         IN HistoryOf(Parse(disk).projects[k]) = SubSeq(h, L - Min(L, max_entries) + 1, L)

C4_NoWriteWhenNothingExceeds ==
  (pc # "idle" /\ Parseable(orig) /\ ~SomeExceeds) =>
    /\ ~wrote
    /\ disk = orig
    /\ outcome # "write_error"

C4_Witness ==
  /\ pc = "done" /\ outcome = "no_cleanup"
  /\ \E k \in OrigKeys : Len(HistoryOf(OrigDoc.projects[k])) = max_entries
  /\ max_entries > 0

\* C5: a run right after a completed run with the same cap reports zero
\* removed for every project, does not write, and leaves the file as it was.
C5_SecondRunIdempotent ==
  (pc = "done" /\ runs >= 2 /\ prev_cap = max_entries) =>
    /\ total_removed = 0
    /\ \A k \in DOMAIN report : report[k] = 0
    /\ ~wrote
    /\ disk = orig

\* C6: the config file exists and is no JSON, then it is never written and
\* keeps its bytes, a completed backup stays, and an invocation that came
\* to the load step ends with the read error.
C6_ParseFailureLeavesFiles ==
  (pc # "idle" /\ orig \in {Invalid, Truncated}) =>
    /\ disk = orig
    /\ ~wrote
    /\ (BackupDone => backups[backup_path] = orig)
    /\ (pc = "done" /\ (backup => BackupDone)) => outcome = "read_error"

C6_Witness ==
  /\ pc = "done" /\ outcome = "read_error"
  /\ orig = Invalid
  /\ backup /\ BackupDone /\ backups[backup_path] = Invalid

\* C7: no config file at the start, then the invocation ends with "not
\* found", and no backup file and no config file is created or opened.
C7_MissingConfigIsNoOp ==
  (pc # "idle" /\ orig = Absent) =>
    /\ disk = Absent
    /\ \A t \in Stamps : backups[t] = Absent
    /\ ~BackupDone
    /\ ~opened /\ ~wrote
    /\ pc = "done" => outcome = "not_found"

C7_Witness ==
  pc = "done" /\ orig = Absent /\ backup /\ outcome = "not_found"

\* C8: the document written back differs from the document read only in
\* the history of the projects longer than the cap: same top-level fields,
\* same project keys, same other fields of every entry, same history
\* (absent staying absent) of every project not longer than the cap.
C8_OnlyLongHistoriesChange ==
  wrote =>
    /\ config.kind = OrigDoc.kind
    /\ config.other = OrigDoc.other
    /\ config.pkind = OrigDoc.pkind
    /\ DOMAIN config.projects = OrigKeys
    /\ \A k \in OrigKeys :
         /\ config.projects[k].kind = OrigDoc.projects[k].kind
         /\ config.projects[k].other = OrigDoc.projects[k].other
         /\ Len(HistoryOf(OrigDoc.projects[k])) <= max_entries
              => config.projects[k].history = OrigDoc.projects[k].history
    /\ outcome = "saved" => (Parseable(disk) /\ Parse(disk) = config)

C8_Witness ==
  /\ pc = "done" /\ outcome = "saved"
  /\ \E k \in OrigKeys : OrigDoc.projects[k].history = HAbsent
  /\ \E k \in OrigKeys :
       Len(HistoryOf(Parse(disk).projects[k])) < Len(HistoryOf(OrigDoc.projects[k]))

\* C9: no invocation ends with an uncaught exception.
C9_NoCrash == outcome # "crash"

\* C10: backup files change only in an invocation that requests a backup,
\* and when one is requested the config file is opened for reading, opened
\* for writing or changed only after the backup copy has completed.
C10_BackupBeforeConfigOpened ==
  [][ /\ (backups' # backups => backup)
      /\ ((opened' /\ ~opened) \/ (wrote' /\ ~wrote) \/ disk' # disk)
           => (backup => BackupDone /\ backups[backup_path] = orig)
    ]_vars

C10_Witness ==
  /\ pc = "done" /\ outcome = "saved"
  /\ backup /\ BackupDone
  /\ backups[backup_path] = orig /\ disk # orig

====
